---- MODULE Spec2Model ----
(***************************************************************************)
(* Model of pytorch/train_embedding.py: the UAV network generator, the     *)
(* GraphSAGE contrastive training loop of train_embeddings, and the entry  *)
(* point that saves the embedding table.                                   *)
(*                                                                         *)
(* Floating point values are abstracted to what the control flow and the   *)
(* properties depend on: a position is an integer point of the sampling    *)
(* box, a tensor is summarised by the mode and the parameter version that  *)
(* produced it and by whether its entries are finite, a loss by its        *)
(* finiteness class.                                                       *)
(***************************************************************************)
EXTENDS Integers, Sequences, FiniteSets

VARIABLES
    num_nodes,        \* argument of train_embeddings
    num_epochs,       \* argument of train_embeddings
    pc,               \* position of the single thread of control
    positions,        \* node index -> 3D point            (line 37)
    adjacency,        \* node index -> node index -> 0/1   (lines 40-48)
    edge_index,       \* list of directed edges [i, j]     (lines 86-90)
    model,            \* the GraphSAGE module: mode and parameters
    optimizer,        \* Adam with its step count
    grad,             \* gradient buffers of the parameters
    epoch,            \* loop variable of the training loop (line 120)
    embeddings,       \* output of the forward pass of the current epoch
    i,                \* last drawn i (line 137)
    j,                \* last drawn j (line 138)
    neg_samples,      \* list of negative pairs [i, j]     (lines 135-140)
    loss,             \* loss of the current epoch         (line 158)
    losses,           \* recorded losses                   (lines 117, 164)
    final_embeddings, \* output of the last forward pass   (line 172)
    result,           \* return value of train_embeddings
    exception,        \* exception in flight / caught by the entry point
    outcome,          \* what the entry point reported
    tables            \* embedding tables written by save_embeddings

vars == <<num_nodes, num_epochs, pc, positions, adjacency, edge_index, model,
          optimizer, grad, epoch, embeddings, i, j, neg_samples, loss, losses,
          final_embeddings, result, exception, outcome, tables>>

----------------------------------------------------------------------------
(* Bounds of the model. *)

MaxNodes == 3

MaxEpochs == 2

\* Training is explored for graphs with at most MaxPos directed edges.
MaxPos == 6

----------------------------------------------------------------------------
(* Program constants. *)

communication_range == 250

None == "None"

\* An object reference is the empty set (None) or the singleton of the
\* object it refers to.
NoObject == {}

Ref(x) == {x}

Obj(r) == CHOOSE x \in r : TRUE

\* Points of the box [0, area_size) x [0, area_size) x [0, 150) that
\* positions are drawn from.  A = (0,0,0) and B = (150,200,0) are exactly
\* 250 apart; C = (100,0,0) is within range of A, B and D (100, about 206.2
\* and about 141.4 away); D = (0,0,100) is within range of A (100) and out
\* of range of B (about 269.3).
Points == { <<0, 0, 0>>, <<150, 200, 0>>, <<100, 0, 0>>, <<0, 0, 100>> }

Nodes(n) == 0 .. (n - 1)

----------------------------------------------------------------------------
(* generate_uav_network, lines 40-48. *)

SqDist(p, q) ==
    (p[1] - q[1]) * (p[1] - q[1]) + (p[2] - q[2]) * (p[2] - q[2])
      + (p[3] - q[3]) * (p[3] - q[3])

\* Mutation of InRange: the range test made inclusive.
InRange_inclusive(p, q) ==
    SqDist(p, q) <= communication_range * communication_range

\* dist < communication_range, with dist = sqrt(SqDist): on integer points
\* the square root is monotone and exact at 250, so the comparison is the
\* comparison of the squares.
InRange(p, q) ==
    SqDist(p, q) < communication_range * communication_range

Zeros(n) == [a \in Nodes(n) |-> [b \in Nodes(n) |-> 0]]

SetEdge(adj, a, b) == [adj EXCEPT ![a][b] = 1, ![b][a] = 1]

\* The nested loops of lines 43-48, from the pair (a, b) on.
RECURSIVE FillFrom(_, _, _, _, _)
FillFrom(adj, pos, n, a, b) ==
    IF a >= n THEN adj
    ELSE IF b >= n THEN FillFrom(adj, pos, n, a + 1, a + 2)
    ELSE FillFrom(IF InRange(pos[a], pos[b]) THEN SetEdge(adj, a, b) ELSE adj,
                  pos, n, a, b + 1)

BuildAdjacency(pos, n) == FillFrom(Zeros(n), pos, n, 0, 1)

----------------------------------------------------------------------------
(* train_embeddings, lines 86-90: the directed edge list, row by row. *)

RECURSIVE EdgeListFrom(_, _, _)
EdgeListFrom(adj, n, k) ==
    IF k >= n * n THEN <<>>
    ELSE LET a == k \div n
             b == k % n
         IN  (IF adj[a][b] = 1 THEN << <<a, b>> >> ELSE <<>>)
               \o EdgeListFrom(adj, n, k + 1)

EdgeList(adj, n) == IF n = 0 THEN <<>> ELSE EdgeListFrom(adj, n, 0)

----------------------------------------------------------------------------

Init ==
    /\ num_nodes \in 0 .. MaxNodes
    /\ num_epochs \in 0 .. MaxEpochs
    /\ pc = "generate"
    /\ positions = <<>>
    /\ adjacency = <<>>
    /\ edge_index = <<>>
    /\ model = NoObject
    /\ optimizer = NoObject
    /\ grad = None
    /\ epoch = 0
    /\ embeddings = NoObject
    /\ i = NoObject
    /\ j = NoObject
    /\ neg_samples = <<>>
    /\ loss = None
    /\ losses = <<>>
    /\ final_embeddings = NoObject
    /\ result = NoObject
    /\ exception = None
    /\ outcome = "running"
    /\ tables = <<>>

\* Line 83 (lines 32-70): positions are drawn (continuous uniform draws: no
\* two nodes share a position), the adjacency matrix is built.
GenerateNetwork ==
    /\ pc = "generate"
    /\ \E pos \in [Nodes(num_nodes) -> Points] :
         /\ \A a \in Nodes(num_nodes) : \A b \in Nodes(num_nodes) :
                a # b => pos[a] # pos[b]
         /\ positions' = pos
         /\ adjacency' = BuildAdjacency(pos, num_nodes)
    /\ pc' = "edge_index"
    /\ UNCHANGED <<num_nodes, num_epochs, edge_index, model, optimizer, grad,
                   epoch, embeddings, i, j, neg_samples, loss, losses,
                   final_embeddings, result, exception, outcome, tables>>

\* Mutation of BuildEdgeIndex: the empty-edge-list test left out.
BuildEdgeIndex_nocheck ==
    /\ pc = "edge_index"
    /\ edge_index' = EdgeList(adjacency, num_nodes)
    /\ pc' = "init_model"
    /\ UNCHANGED <<num_nodes, num_epochs, positions, adjacency, model,
                   optimizer, grad, epoch, embeddings, i, j, neg_samples,
                   loss, losses, final_embeddings, result, exception, outcome,
                   tables>>

\* Lines 86-94: the edge list; an edgeless graph returns None at once.
BuildEdgeIndex ==
    /\ pc = "edge_index"
    /\ edge_index' = EdgeList(adjacency, num_nodes)
    /\ IF Len(edge_index') = 0
         THEN /\ result' = NoObject
              /\ pc' = "unpack"
         ELSE /\ result' = result
              /\ pc' = "init_model"
    /\ UNCHANGED <<num_nodes, num_epochs, positions, adjacency, model,
                   optimizer, grad, epoch, embeddings, i, j, neg_samples,
                   loss, losses, final_embeddings, exception, outcome, tables>>

\* Lines 96-118: tensors, the model and its optimizer, training mode on.
InitModel ==
    /\ pc = "init_model"
    /\ Len(edge_index) <= MaxPos
    /\ model' = Ref([training |-> TRUE,
                      params   |-> [version |-> 0, finite |-> TRUE]])
    /\ optimizer' = Ref([step |-> 0])
    /\ losses' = <<>>
    /\ pc' = "for"
    /\ UNCHANGED <<num_nodes, num_epochs, positions, adjacency, edge_index,
                   grad, epoch, embeddings, i, j, neg_samples, loss,
                   final_embeddings, result, exception, outcome, tables>>

\* Mutation of ForEpoch: the loop is also left once a loss is finite.
ForEpoch_earlystop ==
    /\ pc = "for"
    /\ IF epoch < num_epochs /\ loss # "finite"
         THEN pc' = "zero_grad"
         ELSE pc' = "eval"
    /\ UNCHANGED <<num_nodes, num_epochs, positions, adjacency, edge_index,
                   model, optimizer, grad, epoch, embeddings, i, j,
                   neg_samples, loss, losses, final_embeddings, result,
                   exception, outcome, tables>>

\* Line 120: `for epoch in range(num_epochs)`; epoch counts the iterations
\* already completed, which is the value the body sees.
ForEpoch ==
    /\ pc = "for"
    /\ IF epoch < num_epochs
         THEN pc' = "zero_grad"
         ELSE pc' = "eval"
    /\ UNCHANGED <<num_nodes, num_epochs, positions, adjacency, edge_index,
                   model, optimizer, grad, epoch, embeddings, i, j,
                   neg_samples, loss, losses, final_embeddings, result,
                   exception, outcome, tables>>

\* Line 121.
ZeroGrad ==
    /\ pc = "zero_grad"
    /\ grad' = "zero"
    /\ pc' = "forward"
    /\ UNCHANGED <<num_nodes, num_epochs, positions, adjacency, edge_index,
                   model, optimizer, epoch, embeddings, i, j, neg_samples,
                   loss, losses, final_embeddings, result, exception, outcome,
                   tables>>

\* GraphSAGE.forward, lines 25-30: one row per node, computed from the
\* current parameters; dropout is active iff the module is in training mode.
ForwardPass(m, n) ==
    [training |-> m.training,
     version  |-> m.params.version,
     finite   |-> m.params.finite,
     rows     |-> n]

\* Line 124.
Forward ==
    /\ pc = "forward"
    /\ embeddings' = Ref(ForwardPass(Obj(model), num_nodes))
    /\ pc' = "pos_sample"
    /\ UNCHANGED <<num_nodes, num_epochs, positions, adjacency, edge_index,
                   model, optimizer, grad, epoch, i, j, neg_samples, loss,
                   losses, final_embeddings, result, exception, outcome,
                   tables>>

\* Line 131: num_pos = pos_samples.size(0).
num_pos == Len(edge_index)

\* Lines 130-135: the positive pairs are the edge list; neg_samples = [].
PosSampling ==
    /\ pc = "pos_sample"
    /\ neg_samples' = <<>>
    /\ pc' = "neg_sample"
    /\ UNCHANGED <<num_nodes, num_epochs, positions, adjacency, edge_index,
                   model, optimizer, grad, epoch, embeddings, i, j, loss,
                   losses, final_embeddings, result, exception, outcome,
                   tables>>

\* Mutation of Accept: the i != j test left out.
Accept_adjacency_only(a, b) == adjacency[a][b] = 0

\* Line 139: the acceptance test of a drawn pair.
Accept(a, b) == a # b /\ adjacency[a][b] = 0

\* Lines 136-140: one iteration of the rejection-sampling loop with the
\* draws a and b of np.random.randint(0, num_nodes).
Draw(a, b) ==
    /\ pc = "neg_sample"
    /\ Len(neg_samples) < num_pos
    /\ i' = Ref(a)
    /\ j' = Ref(b)
    /\ neg_samples' = IF Accept(a, b) THEN Append(neg_samples, <<a, b>>)
                                      ELSE neg_samples
    /\ UNCHANGED <<num_nodes, num_epochs, pc, positions, adjacency,
                   edge_index, model, optimizer, grad, epoch, embeddings,
                   loss, losses, final_embeddings, result, exception, outcome,
                   tables>>

NegSampleDraw == \E a \in Nodes(num_nodes) : \E b \in Nodes(num_nodes) : Draw(a, b)

\* An iteration whose draw is accepted (used for fairness only).
NegSampleAccepted ==
    \E a \in Nodes(num_nodes) : \E b \in Nodes(num_nodes) :
        Draw(a, b) /\ Accept(a, b)

\* Line 136 (condition false) and line 142: the loop is left only when
\* num_pos pairs have been collected.
NegSampleDone ==
    /\ pc = "neg_sample"
    /\ ~(Len(neg_samples) < num_pos)
    /\ pc' = "loss"
    /\ UNCHANGED <<num_nodes, num_epochs, positions, adjacency, edge_index,
                   model, optimizer, grad, epoch, embeddings, i, j,
                   neg_samples, loss, losses, final_embeddings, result,
                   exception, outcome, tables>>

\* Lines 145-159.  With finite embeddings the float32 value of
\* -log(sigmoid(p)).mean() - log(1 - sigmoid(n)).mean() is finite, or +inf
\* when a similarity saturates the sigmoid (log(0)); embeddings computed
\* from non-finite parameters give NaN.  The mean over an empty list of
\* pairs is NaN.
LossValues(emb, npos) ==
    IF npos = 0 \/ ~emb.finite THEN {"nan"} ELSE {"finite", "inf"}

ComputeLoss ==
    /\ pc = "loss"
    /\ loss' \in LossValues(Obj(embeddings), num_pos)
    /\ pc' = "backward"
    /\ UNCHANGED <<num_nodes, num_epochs, positions, adjacency, edge_index,
                   model, optimizer, grad, epoch, embeddings, i, j,
                   neg_samples, losses, final_embeddings, result, exception,
                   outcome, tables>>

\* Line 161: the gradients of a non-finite loss are not finite.
Backward ==
    /\ pc = "backward"
    /\ grad' = IF loss = "finite" THEN "finite" ELSE "nan"
    /\ pc' = "step"
    /\ UNCHANGED <<num_nodes, num_epochs, positions, adjacency, edge_index,
                   model, optimizer, epoch, embeddings, i, j, neg_samples,
                   loss, losses, final_embeddings, result, exception, outcome,
                   tables>>

\* Mutation of OptimizerStep: the parameters are not updated.
OptimizerStep_skipped ==
    /\ pc = "step"
    /\ pc' = "record"
    /\ UNCHANGED <<num_nodes, num_epochs, positions, adjacency, edge_index,
                   model, optimizer, grad, epoch, embeddings, i, j,
                   neg_samples, loss, losses, final_embeddings, result,
                   exception, outcome, tables>>

\* Line 162: Adam writes new parameters from the gradients, whatever they are.
OptimizerStep ==
    /\ pc = "step"
    /\ model' = Ref([Obj(model) EXCEPT
                       !.params = [version |-> @.version + 1,
                                   finite  |-> @.finite /\ grad = "finite"]])
    /\ optimizer' = Ref([step |-> Obj(optimizer).step + 1])
    /\ pc' = "record"
    /\ UNCHANGED <<num_nodes, num_epochs, positions, adjacency, edge_index,
                   grad, epoch, embeddings, i, j, neg_samples, loss, losses,
                   final_embeddings, result, exception, outcome, tables>>

\* Lines 164-167: record the loss; the iteration is over.
RecordLoss ==
    /\ pc = "record"
    /\ losses' = Append(losses, loss)
    /\ epoch' = epoch + 1
    /\ pc' = "for"
    /\ UNCHANGED <<num_nodes, num_epochs, positions, adjacency, edge_index,
                   model, optimizer, grad, embeddings, i, j, neg_samples,
                   loss, final_embeddings, result, exception, outcome, tables>>

\* Mutation of EvalForward: model.eval() left out.
EvalForward_trainmode ==
    /\ pc = "eval"
    /\ final_embeddings' = Ref(ForwardPass(Obj(model), num_nodes))
    /\ pc' = "finish"
    /\ UNCHANGED <<num_nodes, num_epochs, positions, adjacency, edge_index,
                   model, optimizer, grad, epoch, embeddings, i, j,
                   neg_samples, loss, losses, result, exception, outcome,
                   tables>>

\* Lines 170-172: evaluation mode, then one more forward pass.
EvalForward ==
    /\ pc = "eval"
    /\ model' = Ref([Obj(model) EXCEPT !.training = FALSE])
    /\ final_embeddings' = Ref(ForwardPass(Obj(model'), num_nodes))
    /\ pc' = "finish"
    /\ UNCHANGED <<num_nodes, num_epochs, positions, adjacency, edge_index,
                   optimizer, grad, epoch, embeddings, i, j, neg_samples,
                   loss, losses, result, exception, outcome, tables>>

\* Lines 175-189: biases, the final-loss report (losses[-1] raises
\* IndexError on an empty list), the loss plot, the return.
Finish ==
    /\ pc = "finish"
    /\ IF Len(losses) = 0
         THEN /\ exception' = "IndexError"
              /\ result' = result
              /\ pc' = "except"
         ELSE /\ exception' = exception
              /\ result' = Ref([embeddings |-> final_embeddings,
                                biases     |-> num_nodes])
              /\ pc' = "unpack"
    /\ UNCHANGED <<num_nodes, num_epochs, positions, adjacency, edge_index,
                   model, optimizer, grad, epoch, embeddings, i, j,
                   neg_samples, loss, losses, final_embeddings, outcome,
                   tables>>

----------------------------------------------------------------------------
(* The entry point, lines 263-283. *)

\* Line 265: `embeddings, biases, G = train_embeddings(...)`; unpacking
\* None raises TypeError.
MainUnpack ==
    /\ pc = "unpack"
    /\ IF result = NoObject
         THEN /\ exception' = "TypeError"
              /\ pc' = "except"
         ELSE /\ exception' = exception
              /\ pc' = "check"
    /\ UNCHANGED <<num_nodes, num_epochs, positions, adjacency, edge_index,
                   model, optimizer, grad, epoch, embeddings, i, j,
                   neg_samples, loss, losses, final_embeddings, result,
                   outcome, tables>>

\* Lines 267 and 277-278.
MainCheck ==
    /\ pc = "check"
    /\ IF Obj(result).embeddings # NoObject
         THEN /\ outcome' = outcome
              /\ pc' = "save"
         ELSE /\ outcome' = "failed"
              /\ pc' = "done"
    /\ UNCHANGED <<num_nodes, num_epochs, positions, adjacency, edge_index,
                   model, optimizer, grad, epoch, embeddings, i, j,
                   neg_samples, loss, losses, final_embeddings, result,
                   exception, tables>>

\* save_embeddings, lines 191-212: one row per row of the embeddings, the
\* row index as node_id.
SavedTable(emb) ==
    [node_ids |-> Nodes(emb.rows), training |-> emb.training,
     version  |-> emb.version, finite |-> emb.finite]

\* Line 269.
MainSave ==
    /\ pc = "save"
    /\ tables' = Append(tables, SavedTable(Obj(Obj(result).embeddings)))
    /\ pc' = "visualize"
    /\ UNCHANGED <<num_nodes, num_epochs, positions, adjacency, edge_index,
                   model, optimizer, grad, epoch, embeddings, i, j,
                   neg_samples, loss, losses, final_embeddings, result,
                   exception, outcome>>

\* visualize_embeddings, line 220: PCA.fit_transform validates its input
\* and raises ValueError on NaN or infinite entries.
PcaAccepts(emb) == emb.finite

\* Lines 272-276: the visualisation, then the completion report; an
\* exception of visualize_embeddings leaves the try block before line 274,
\* after the table has been written.
MainVisualize ==
    /\ pc = "visualize"
    /\ IF PcaAccepts(Obj(Obj(result).embeddings))
         THEN /\ outcome' = "completed"
              /\ exception' = exception
              /\ pc' = "done"
         ELSE /\ outcome' = outcome
              /\ exception' = "ValueError"
              /\ pc' = "except"
    /\ UNCHANGED <<num_nodes, num_epochs, positions, adjacency, edge_index,
                   model, optimizer, grad, epoch, embeddings, i, j,
                   neg_samples, loss, losses, final_embeddings, result,
                   tables>>

\* Mutation of MainExcept: the handler writes an (empty) table.
MainExcept_publish ==
    /\ pc = "except"
    /\ outcome' = "error"
    /\ tables' = Append(tables, [node_ids |-> {}, training |-> FALSE,
                                 version |-> 0, finite |-> TRUE])
    /\ pc' = "done"
    /\ UNCHANGED <<num_nodes, num_epochs, positions, adjacency, edge_index,
                   model, optimizer, grad, epoch, embeddings, i, j,
                   neg_samples, loss, losses, final_embeddings, result,
                   exception>>

\* Lines 280-283: the catch-all handler reports the error.
MainExcept ==
    /\ pc = "except"
    /\ outcome' = "error"
    /\ pc' = "done"
    /\ UNCHANGED <<num_nodes, num_epochs, positions, adjacency, edge_index,
                   model, optimizer, grad, epoch, embeddings, i, j,
                   neg_samples, loss, losses, final_embeddings, result,
                   exception, tables>>

----------------------------------------------------------------------------

Next ==
    \/ GenerateNetwork
    \/ BuildEdgeIndex
    \/ InitModel
    \/ ForEpoch
    \/ ZeroGrad
    \/ Forward
    \/ PosSampling
    \/ NegSampleDraw
    \/ NegSampleDone
    \/ ComputeLoss
    \/ Backward
    \/ OptimizerStep
    \/ RecordLoss
    \/ EvalForward
    \/ Finish
    \/ MainUnpack
    \/ MainCheck
    \/ MainSave
    \/ MainVisualize
    \/ MainExcept

Spec == Init /\ [][Next]_vars

\* The program is a single thread that always takes its next step; a draw
\* that can be accepted infinitely often is eventually accepted (the draws
\* are uniform and independent).
FairSpec == Spec /\ WF_vars(Next) /\ SF_vars(NegSampleAccepted)

----------------------------------------------------------------------------
(* Properties. *)

\* Positions inside one iteration of the training loop.
EpochPcs == {"zero_grad", "forward", "pos_sample", "neg_sample", "loss",
             "backward", "step", "record"}

\* The network has been generated and has no edge.
EdgelessGraph ==
    /\ pc # "generate"
    /\ \A a \in Nodes(num_nodes) : \A b \in Nodes(num_nodes) : adjacency[a][b] = 0

\* C1: whenever an epoch is in its negative-sampling loop, it eventually
\* leaves the loop (with its pairs, or with a failure): the loop never runs
\* forever.
C1_NegSamplingTerminates == (pc = "neg_sample") ~> (pc # "neg_sample")

\* C2: every pair in neg_samples has both indices in [0, num_nodes), has
\* i # j, is not adjacent in either direction and is no positive pair in
\* either direction.
C2_NegativePairsAreNonEdges ==
    \A k \in 1 .. Len(neg_samples) :
        LET a == neg_samples[k][1]
            b == neg_samples[k][2]
        IN  /\ a \in Nodes(num_nodes)
            /\ b \in Nodes(num_nodes)
            /\ a # b
            /\ adjacency[a][b] = 0
            /\ adjacency[b][a] = 0
            /\ \A e \in 1 .. Len(edge_index) :
                   edge_index[e] # <<a, b>> /\ edge_index[e] # <<b, a>>

\* C2 witness: a three-node graph with two edges whose four negative pairs
\* have all been collected.
C2_Witness ==
    /\ pc = "loss"
    /\ num_nodes = 3
    /\ Len(edge_index) = 4
    /\ Len(neg_samples) = 4

\* C3: the generated adjacency matrix is symmetric, has a zero diagonal and
\* has adjacency[a][b] = 1 for a # b exactly when the two positions are
\* strictly less than 250 apart.
C3_AdjacencyIsRangeGraph ==
    pc # "generate" =>
        \A a \in Nodes(num_nodes) : \A b \in Nodes(num_nodes) :
            /\ adjacency[a][b] \in {0, 1}
            /\ adjacency[a][b] = adjacency[b][a]
            /\ adjacency[a][a] = 0
            /\ a # b =>
                 (adjacency[a][b] = 1 <=>
                    SqDist(positions[a], positions[b]) < 250 * 250)

\* C3 witness: a generated three-node graph with a pair exactly 250 apart
\* (no edge) and a pair in range (an edge).
C3_Witness ==
    /\ pc # "generate"
    /\ num_nodes = 3
    /\ \E a \in Nodes(num_nodes) : \E b \in Nodes(num_nodes) :
         /\ a # b
         /\ SqDist(positions[a], positions[b]) = 250 * 250
         /\ adjacency[a][b] = 0
    /\ \E a \in Nodes(num_nodes) : \E b \in Nodes(num_nodes) :
         adjacency[a][b] = 1

\* C4: with an edgeless graph no model and no optimizer is built, no epoch
\* runs, no forward pass and no parameter update happens, and
\* train_embeddings returns None.
C4_NoTrainingOnEdgelessGraph ==
    EdgelessGraph =>
        /\ model = NoObject
        /\ optimizer = NoObject
        /\ grad = None
        /\ epoch = 0
        /\ embeddings = NoObject
        /\ final_embeddings = NoObject
        /\ loss = None
        /\ losses = <<>>
        /\ result = NoObject
        /\ pc \in {"edge_index", "unpack", "except", "done"}

\* C4 witness: a finished run on two nodes exactly 250 apart.
C4_Witness ==
    /\ EdgelessGraph
    /\ num_nodes = 2
    /\ pc = "done"

\* The epochs (counted from 1) whose loss was not finite.
NonFiniteEpochs ==
    {k \in 1 .. Len(losses) : losses[k] # "finite"}
      \cup (IF pc \in {"backward", "step", "record"} /\ loss # "finite"
              THEN {epoch + 1} ELSE {})

\* C5: a non-finite loss of epoch k is fatal: the optimizer step of epoch k
\* is not applied, no later epoch runs, and the run does not complete.
C5_NonFiniteLossIsFatal ==
    \A k \in NonFiniteEpochs :
        /\ Obj(optimizer).step < k
        /\ Len(losses) <= k
        /\ pc \in EpochPcs => epoch < k
        /\ outcome # "completed"
        /\ tables = <<>>

\* C6: every forward pass inside the loop runs in training mode; the
\* returned embeddings are the output of the one extra forward pass, made
\* in evaluation mode from the parameters written by the last epoch.
C6_ReturnedEmbeddingsAreEvalMode ==
    /\ embeddings # NoObject => Obj(embeddings).training
    /\ final_embeddings # NoObject =>
         /\ ~Obj(final_embeddings).training
         /\ epoch = num_epochs
         /\ Obj(optimizer).step = num_epochs
         /\ Obj(final_embeddings).version = num_epochs
    /\ result # NoObject =>
         /\ final_embeddings # NoObject
         /\ Obj(result).embeddings = final_embeddings
         /\ Obj(result).embeddings # embeddings

\* C6 witness: train_embeddings has returned after two epochs.
C6_Witness ==
    /\ pc = "unpack"
    /\ result # NoObject
    /\ num_epochs = 2
    /\ Obj(Obj(result).embeddings).version = 2

\* C7: the loop is left only after exactly num_epochs iterations, whatever
\* the losses were, with one recorded loss per epoch; the k-th entry is the
\* loss of the k-th epoch and is never changed afterwards.
C7_FixedLengthLoop ==
    /\ [](pc \in {"eval", "finish"} \/ final_embeddings # NoObject =>
            epoch = num_epochs /\ Len(losses) = num_epochs)
    /\ [](model # NoObject /\ pc \in EpochPcs \cup {"for"} =>
            Len(losses) = epoch /\ epoch <= num_epochs)
    /\ [][ /\ pc = "record" =>
                losses' = Append(losses, loss) /\ Len(losses') = epoch'
           /\ pc # "record" /\ model # NoObject => losses' = losses ]_vars

\* C7 witness: the loop is left after two epochs with different losses.
C7_Witness ==
    /\ pc = "eval"
    /\ num_epochs = 2
    /\ losses = <<"finite", "inf">>

\* C8: the table is written at most once, only after all epochs and the
\* evaluation-mode forward pass, with one row per node; a run whose
\* training fails (edgeless graph, whose None result raises TypeError when
\* unpacked, or an exception raised inside train_embeddings) writes no
\* table.  The only exception after a written table is the ValueError of
\* visualize_embeddings.
C8_TableOnlyAfterTraining ==
    /\ Len(tables) <= 1
    /\ tables # <<>> =>
         /\ epoch = num_epochs
         /\ Len(losses) = num_epochs
         /\ final_embeddings # NoObject
         /\ ~Obj(final_embeddings).training
         /\ tables[1].node_ids = Nodes(num_nodes)
         /\ tables[1].version = num_epochs
         /\ exception \in {None, "ValueError"}
    /\ exception \in {"IndexError", "TypeError"} \/ EdgelessGraph =>
         tables = <<>>

\* C8 witness: a finished run that wrote its table for three nodes.
C8_Witness ==
    /\ pc = "done"
    /\ num_nodes = 3
    /\ Len(tables) = 1

\* C9: inside an epoch the steps follow each other in the order zero
\* gradients, forward, sampling, loss, backward, optimizer step, record;
\* one optimizer step is applied per epoch, and the forward pass of an
\* epoch reads the parameters written by the step of the previous epoch
\* (version 0, the initial parameters, in the first).
C9_EpochsStrictlyOrdered ==
    /\ [](model # NoObject /\ pc \in (EpochPcs \cup {"for"}) \ {"record"} =>
            /\ Obj(model).params.version = epoch
            /\ Obj(optimizer).step = epoch)
    /\ [](pc = "record" =>
            /\ Obj(model).params.version = epoch + 1
            /\ Obj(optimizer).step = epoch + 1)
    /\ [](pc \in EpochPcs \ {"zero_grad", "forward"} =>
            Obj(embeddings).version = epoch)
    /\ [][ /\ pc = "for" /\ epoch < num_epochs => pc' = "zero_grad"
           /\ pc = "zero_grad" => pc' = "forward"
           /\ pc = "forward" => pc' = "pos_sample"
           /\ pc = "pos_sample" => pc' = "neg_sample"
           /\ pc = "neg_sample" => pc' \in {"neg_sample", "loss"}
           /\ pc = "loss" => pc' = "backward"
           /\ pc = "backward" => pc' = "step"
           /\ pc = "step" => pc' = "record"
           /\ pc = "record" => pc' = "for" /\ epoch' = epoch + 1 ]_vars

\* C9 witness: the second epoch is sampling, its forward pass having read
\* the parameters written by the first epoch's step.
C9_Witness ==
    /\ pc = "neg_sample"
    /\ epoch = 1
    /\ Obj(embeddings).version = 1
    /\ Obj(optimizer).step = 1

\* C10: a run on an edgeless graph ends in the entry point's explicit
\* failure branch ('Training failed'), not in the exception handler.
C10_EdgelessEndsInFailureBranch ==
    EdgelessGraph /\ pc = "done" => outcome = "failed" /\ exception = None

====
